---- MODULE Spec2Model ----
(***************************************************************************)
(* Model of the Labyrinth episode controller                               *)
(* (src/rl_envs/envs/labyrinth/labyrinth.py): construction, step, reset.   *)
(* MazeFactory, Maze, Player and the cell-code constants live in modules   *)
(* that are imported by labyrinth.py; they are modelled from their         *)
(* documented interface.                                                   *)
(***************************************************************************)
EXTENDS Integers, Sequences, FiniteSets, TLC

(* ---------------------------- bounds ----------------------------------- *)
\* grid size given to the constructor
Rows == 3
Cols == 3
\* seeds the constructor can start from are 0..MaxInitSeed
MaxInitSeed == 1
\* reset is not taken once self.seed has reached MaxSeed
MaxSeed == 3

(* ------------------------ cell codes (constants.py) --------------------- *)
WALL == 0
PATH == 1
TARGET == 2
START == 3
PLAYER == 4

\* Action enumeration (constants.Action)
Actions == {"UP", "RIGHT", "DOWN", "LEFT"}

Cells == (0 .. (Rows - 1)) \X (0 .. (Cols - 1))

(* ------------------------ reward schema --------------------------------- *)
\* Rewards are kept in hundredths so that -0.01 is an integer.
\* labyrinth.py lines 63-67: -0.01, -1, 10
DefaultRewardSchema ==
  [neutral_reward |-> -1,
   wall_collision_reward |-> -100,
   target_reached_reward |-> 1000]

\* a schema a caller passes to the constructor: 0.05, -2, 7
CustomRewardSchema ==
  [neutral_reward |-> 5,
   wall_collision_reward |-> -200,
   target_reached_reward |-> 700]

\* values of the constructor's reward_schema argument: <<>> is None
RewardSchemaArgs == {<<>>, <<CustomRewardSchema>>}

\* values of reset's seed argument: <<>> is None
SeedArgs == {<<>>} \cup {<<s>> : s \in 0 .. MaxSeed}

\* the value of self.seed that stands for None (seeds are 0 or more)
NoSeed == -1

\* self.py_random.randint(0, 1e6): py_random is random.Random(s) for the
\* constructor's seed s, so its first draw is a fixed function of s
py_random_randint(s) == (3 * s + 1) % (MaxSeed + 1)

(* ------------------------ Maze / MazeFactory ---------------------------- *)
\* A Maze value: structural grid plus start and target cells.
Maze(walls, start, target) ==
  [grid |-> [p \in Cells |-> IF p \in walls THEN WALL ELSE PATH],
   start_position |-> start,
   target_position |-> target]

\* The mazes the factory can produce on this grid: start # target, both on
\* PATH cells, every PATH cell reachable from start.
MazeTable ==
  << Maze({<<1, 1>>}, <<0, 0>>, <<2, 2>>),
     Maze({<<0, 1>>, <<1, 1>>}, <<0, 0>>, <<0, 2>>),
     Maze({<<1, 0>>, <<1, 1>>}, <<2, 0>>, <<0, 0>>),
     Maze({}, <<1, 1>>, <<1, 2>>),
     Maze({<<1, 1>>, <<1, 2>>}, <<0, 2>>, <<0, 1>>) >>

\* MazeFactory.create_maze: a deterministic function of the factory's seed
\* and of the number of mazes it has produced so far (its random stream).
create_maze(factory) ==
  MazeTable[((2 * factory.seed + 3 * factory.calls) % Len(MazeTable)) + 1]

(* ------------------------ Player ---------------------------------------- *)
\* Player.potential_next_position: position plus a unit delta, no checks.
potential_next_position(position, action) ==
  CASE action = "UP"    -> <<position[1] - 1, position[2]>>
    [] action = "RIGHT" -> <<position[1], position[2] + 1>>
    [] action = "DOWN"  -> <<position[1] + 1, position[2]>>
    [] action = "LEFT"  -> <<position[1], position[2] - 1>>

(* ------------------------ state ----------------------------------------- *)
VARIABLES
  seed,               \* self.seed
  reward_schema,      \* self.reward_schema: <<>> when the attribute is unset
  arg_reward_schema,  \* the reward_schema argument given to __init__
  maze_factory,       \* self.maze_factory: its seed and calls made so far
  maze,               \* self.maze
  player,             \* self.player.position
  state,              \* self.state, the observation matrix
  ret,                \* outcome of the last call on the environment
  twin                \* a second Labyrinth built with the same arguments

vars == <<seed, reward_schema, arg_reward_schema, maze_factory, maze, player,
          state, ret, twin>>

\* a step that returned: value = <<observation, reward, done, truncated, info>>
Returned(op, action, seed_arg, value) ==
  [op |-> op, kind |-> "return", action |-> action, seed_arg |-> seed_arg,
   value |-> value]

\* a call that raised an exception
Raised(op, action, seed_arg) ==
  [op |-> op, kind |-> "raise", action |-> action, seed_arg |-> seed_arg,
   value |-> <<>>]

(* ------------------------ Labyrinth ------------------------------------- *)
\* build_state_matrix with START written last, over PLAYER and TARGET
build_state_matrix_start_last(m, position) ==
  LET copied == m.grid
      with_target == [copied EXCEPT ![m.target_position] = TARGET]
      with_player == [with_target EXCEPT ![position] = PLAYER]
  IN  [with_player EXCEPT ![m.start_position] = START]

\* build_state_matrix adding the PLAYER code to the cell instead of storing it
build_state_matrix_adds_player(m, position) ==
  LET copied == m.grid
      with_start == [copied EXCEPT ![m.start_position] = START]
      with_target == [with_start EXCEPT ![m.target_position] = TARGET]
  IN  [with_target EXCEPT ![position] = @ + PLAYER]

\* build_state_matrix: a copy of the grid, then the three writes in the
\* order of lines 97-99: START, TARGET, PLAYER
build_state_matrix(m, position) ==
  LET copied == m.grid
      with_start == [copied EXCEPT ![m.start_position] = START]
      with_target == [with_start EXCEPT ![m.target_position] = TARGET]
  IN  [with_target EXCEPT ![position] = PLAYER]

\* is_valid_move without the WALL test
is_valid_move_ignores_walls(position, action) ==
  LET potential_position == potential_next_position(position, action)
      is_inside_bounds ==
        /\ 0 <= potential_position[1] /\ potential_position[1] < Rows
        /\ 0 <= potential_position[2] /\ potential_position[2] < Cols
  IN  IF ~is_inside_bounds THEN FALSE
      ELSE TRUE

is_valid_move(position, action) ==
  LET potential_position == potential_next_position(position, action)
      is_inside_bounds ==
        /\ 0 <= potential_position[1] /\ potential_position[1] < Rows
        /\ 0 <= potential_position[2] /\ potential_position[2] < Cols
  IN  IF ~is_inside_bounds THEN FALSE
      ELSE IF maze.grid[potential_position] = WALL THEN FALSE
      ELSE TRUE

\* agent_move: the position the player is moved to
agent_move(action) == potential_next_position(player, action)

\* The same class on a second object e, a record of its attributes and of
\* the outcome of its last call.
\* __init__ on the second object
twin_init(s, rs) ==
  LET m == create_maze([seed |-> s, calls |-> 0])
  IN  [seed |-> s,
       reward_schema |-> IF rs = <<>> THEN <<DefaultRewardSchema>> ELSE <<>>,
       maze_factory |-> [seed |-> s, calls |-> 1],
       maze |-> m,
       player |-> m.start_position,
       state |-> build_state_matrix(m, m.start_position),
       ret |-> Returned("init", "-", <<>>, <<>>)]

\* is_valid_move on the second object
twin_is_valid_move(e, action) ==
  LET potential_position == potential_next_position(e.player, action)
      is_inside_bounds ==
        /\ 0 <= potential_position[1] /\ potential_position[1] < Rows
        /\ 0 <= potential_position[2] /\ potential_position[2] < Cols
  IN  IF ~is_inside_bounds THEN FALSE
      ELSE IF e.maze.grid[potential_position] = WALL THEN FALSE
      ELSE TRUE

\* step on the second object
twin_step(e, action) ==
  IF e.reward_schema = <<>>
  THEN [e EXCEPT !.ret = Raised("step", action, <<>>)]
  ELSE
    LET schema == e.reward_schema[1] IN
    IF ~twin_is_valid_move(e, action)
    THEN [e EXCEPT !.ret = Returned("step", action, <<>>,
                     <<e.state, schema.wall_collision_reward, FALSE, FALSE,
                       "Invalid move!">>)]
    ELSE
      LET new_position == potential_next_position(e.player, action) IN
      IF new_position = e.maze.target_position
      THEN [e EXCEPT !.player = new_position,
                     !.ret = Returned("step", action, <<>>,
                       <<e.state, schema.target_reached_reward, TRUE, FALSE,
                         "Reached the target!">>)]
      ELSE
        LET rebuilt == build_state_matrix(e.maze, new_position) IN
        [e EXCEPT !.player = new_position,
                  !.state = rebuilt,
                  !.ret = Returned("step", action, <<>>,
                    <<rebuilt, schema.neutral_reward, FALSE, FALSE, "">>)]

\* reset (with setup_labyrinth) on the second object
twin_reset(e, seed_arg) ==
  LET m == create_maze(e.maze_factory)
  IN  [e EXCEPT !.seed = IF @ = NoSeed
                          THEN py_random_randint(e.maze_factory.seed)
                          ELSE @ + 1,
                !.maze = m,
                !.maze_factory = [e.maze_factory EXCEPT !.calls = @ + 1],
                !.player = m.start_position,
                !.state = build_state_matrix(m, m.start_position),
                !.ret = Returned("reset", "-", seed_arg, <<>>)]

\* setup_labyrinth taking any maze the factory can make, as a factory whose
\* random stream is not seeded would
setup_labyrinth_unseeded ==
  /\ \E m \in {MazeTable[i] : i \in 1 .. Len(MazeTable)} : maze' = m
  /\ maze_factory' = [maze_factory EXCEPT !.calls = @ + 1]
  /\ player' = maze'.start_position
  /\ state' = build_state_matrix(maze', player')

\* setup_labyrinth as it would be if it left the player where it was
setup_labyrinth_keeps_player ==
  /\ maze' = create_maze(maze_factory)
  /\ maze_factory' = [maze_factory EXCEPT !.calls = @ + 1]
  /\ player' = player
  /\ state' = build_state_matrix(maze', player')

\* setup_labyrinth: next maze of the factory, player on its start, rebuild.
\* The maze_seed drawn from np_random on line 89 is never used: the factory
\* keeps the seed and the stream it was constructed with.
setup_labyrinth ==
  /\ maze' = create_maze(maze_factory)
  /\ maze_factory' = [maze_factory EXCEPT !.calls = @ + 1]
  /\ player' = maze'.start_position
  /\ state' = build_state_matrix(maze', player')

\* __init__: the state after construction
Init ==
  \E s \in 0 .. MaxInitSeed, rs \in RewardSchemaArgs :
    /\ seed = s
    /\ arg_reward_schema = rs
    /\ reward_schema = IF rs = <<>> THEN <<DefaultRewardSchema>> ELSE <<>>
    /\ maze_factory = [seed |-> s, calls |-> 1]
    /\ maze = create_maze([seed |-> s, calls |-> 0])
    /\ player = maze.start_position
    /\ state = build_state_matrix(maze, player)
    /\ ret = Returned("init", "-", <<>>, <<>>)
    /\ twin = twin_init(s, rs)

\* step testing the new position against the start instead of the target
step_target_is_start(action) ==
  IF reward_schema = <<>>
  THEN \* self.reward_schema["neutral_reward"] raises AttributeError
       /\ ret' = Raised("step", action, <<>>)
       /\ UNCHANGED <<seed, reward_schema, arg_reward_schema, maze_factory,
                      maze, player, state>>
  ELSE
    LET schema == reward_schema[1] IN
    IF ~is_valid_move(player, action)
    THEN /\ ret' = Returned("step", action, <<>>,
                     <<state, schema.wall_collision_reward, FALSE, FALSE,
                       "Invalid move!">>)
         /\ UNCHANGED <<seed, reward_schema, arg_reward_schema, maze_factory,
                        maze, player, state>>
    ELSE
      /\ player' = agent_move(action)
      /\ IF player' = maze.start_position
         THEN /\ state' = state
              /\ ret' = Returned("step", action, <<>>,
                          <<state, schema.target_reached_reward, TRUE, FALSE,
                            "Reached the target!">>)
         ELSE /\ state' = build_state_matrix(maze, player')
              /\ ret' = Returned("step", action, <<>>,
                          <<state', schema.neutral_reward, FALSE, FALSE, "">>)
      /\ UNCHANGED <<seed, reward_schema, arg_reward_schema, maze_factory,
                     maze>>

\* step whose rebuild writes the overlay into the maze grid itself, as it
\* would if build_state_matrix did not copy the grid
step_without_copy(action) ==
  IF reward_schema = <<>>
  THEN \* self.reward_schema["neutral_reward"] raises AttributeError
       /\ ret' = Raised("step", action, <<>>)
       /\ UNCHANGED <<seed, reward_schema, arg_reward_schema, maze_factory,
                      maze, player, state>>
  ELSE
    LET schema == reward_schema[1] IN
    IF ~is_valid_move(player, action)
    THEN /\ ret' = Returned("step", action, <<>>,
                     <<state, schema.wall_collision_reward, FALSE, FALSE,
                       "Invalid move!">>)
         /\ UNCHANGED <<seed, reward_schema, arg_reward_schema, maze_factory,
                        maze, player, state>>
    ELSE
      /\ player' = agent_move(action)
      /\ IF player' = maze.target_position
         THEN /\ state' = state
              /\ maze' = maze
              /\ ret' = Returned("step", action, <<>>,
                          <<state, schema.target_reached_reward, TRUE, FALSE,
                            "Reached the target!">>)
         ELSE /\ state' = build_state_matrix(maze, player')
              /\ maze' = [maze EXCEPT !.grid = state']
              /\ ret' = Returned("step", action, <<>>,
                          <<state', schema.neutral_reward, FALSE, FALSE, "">>)
      /\ UNCHANGED <<seed, reward_schema, arg_reward_schema, maze_factory>>

\* step: lines 102-125
step(action) ==
  IF reward_schema = <<>>
  THEN \* self.reward_schema["neutral_reward"] raises AttributeError
       /\ ret' = Raised("step", action, <<>>)
       /\ UNCHANGED <<seed, reward_schema, arg_reward_schema, maze_factory,
                      maze, player, state>>
  ELSE
    LET schema == reward_schema[1] IN
    IF ~is_valid_move(player, action)
    THEN /\ ret' = Returned("step", action, <<>>,
                     <<state, schema.wall_collision_reward, FALSE, FALSE,
                       "Invalid move!">>)
         /\ UNCHANGED <<seed, reward_schema, arg_reward_schema, maze_factory,
                        maze, player, state>>
    ELSE
      /\ player' = agent_move(action)
      /\ IF player' = maze.target_position
         THEN /\ state' = state
              /\ ret' = Returned("step", action, <<>>,
                          <<state, schema.target_reached_reward, TRUE, FALSE,
                            "Reached the target!">>)
         ELSE /\ state' = build_state_matrix(maze, player')
              /\ ret' = Returned("step", action, <<>>,
                          <<state', schema.neutral_reward, FALSE, FALSE, "">>)
      /\ UNCHANGED <<seed, reward_schema, arg_reward_schema, maze_factory,
                     maze>>

\* reset that advances the seed by two
reset_skips_a_seed(seed_arg) ==
  /\ seed < MaxSeed
  /\ seed' = IF seed = NoSeed THEN py_random_randint(maze_factory.seed)
             ELSE seed + 2
  /\ setup_labyrinth
  /\ ret' = Returned("reset", "-", seed_arg, <<>>)
  /\ UNCHANGED <<reward_schema, arg_reward_schema>>

\* reset(seed=None): the argument is not read; the method returns None
reset(seed_arg) ==
  /\ seed < MaxSeed
  /\ seed' = IF seed = NoSeed THEN py_random_randint(maze_factory.seed)
             ELSE seed + 1
  /\ setup_labyrinth
  /\ ret' = Returned("reset", "-", seed_arg, <<>>)
  /\ UNCHANGED <<reward_schema, arg_reward_schema>>

Next ==
  \/ \E action \in Actions : step(action) /\ UNCHANGED twin
  \/ \E seed_arg \in SeedArgs : reset(seed_arg) /\ UNCHANGED twin

Spec == Init /\ [][Next]_vars

\* a caller invoking the public method build_state_matrix() directly
build_state_matrix_call ==
  /\ state' = build_state_matrix(maze, player)
  /\ ret' = Returned("build_state_matrix", "-", <<>>, <<state'>>)
  /\ UNCHANGED <<seed, reward_schema, arg_reward_schema, maze_factory, maze,
                 player, twin>>

NextBuild ==
  \/ \E action \in Actions : step(action) /\ UNCHANGED twin
  \/ \E seed_arg \in SeedArgs : reset(seed_arg) /\ UNCHANGED twin
  \/ build_state_matrix_call

\* the environment driven through step, reset and build_state_matrix
SpecBuild == Init /\ [][NextBuild]_vars

\* both objects receive the same call
NextTwin ==
  \/ \E action \in Actions :
       step(action) /\ twin' = twin_step(twin, action)
  \/ \E seed_arg \in SeedArgs :
       reset(seed_arg) /\ twin' = twin_reset(twin, seed_arg)

\* two environments built alike and driven by the same sequence of calls
SpecTwin == Init /\ [][NextTwin]_vars

(* ------------------------ vocabulary of the claims ---------------------- *)
\* the schema the constructor was asked to use
IntendedSchema ==
  IF arg_reward_schema = <<>> THEN DefaultRewardSchema
  ELSE arg_reward_schema[1]

\* this transition is a call step(a)
StepCalled(a) == ret'.op = "step" /\ ret'.action = a

\* the cell action a leads to from the player's current position
Dest(a) == potential_next_position(player, a)

\* the destination is out of bounds or a WALL cell of the maze grid
Blocked(a) == Dest(a) \notin Cells \/ maze.grid[Dest(a)] = WALL

\* the observation of maze m with the player on its start cell
FreshObservation(m) ==
  [p \in Cells |->
     IF p = m.start_position THEN PLAYER
     ELSE IF p = m.target_position THEN TARGET
     ELSE m.grid[p]]

(* ------------------------ claims ---------------------------------------- *)
\* C1: a step towards an out-of-bounds or WALL cell raises no fault, leaves
\* the player where it is and returns the observation held before the call,
\* wall_collision_reward, done = False and an info signalling the invalid
\* move.
C1_CollisionHandling ==
  [][\A a \in Actions :
       (StepCalled(a) /\ Blocked(a)) =>
         /\ ret'.kind = "return"
         /\ player' = player
         /\ ret'.value = <<state, IntendedSchema.wall_collision_reward,
                           FALSE, FALSE, "Invalid move!">>]_vars

\* C2: a step whose destination is in bounds, not WALL and equal to the
\* target moves the player onto the target and returns
\* target_reached_reward with done = True.
C2_GoalHandling ==
  [][\A a \in Actions :
       (StepCalled(a) /\ ~Blocked(a) /\ Dest(a) = maze.target_position) =>
         /\ ret'.kind = "return"
         /\ player' = maze.target_position
         /\ ret'.value[2] = IntendedSchema.target_reached_reward
         /\ ret'.value[3] = TRUE]_vars

\* C3: a step made right after a step that returned done = True (no reset in
\* between) leaves the player on the target and is not processed as an
\* accepted move: it does not return neutral_reward with a rebuilt
\* observation.
C3_DoneIsTerminal ==
  [][(/\ ret.op = "step" /\ ret.kind = "return" /\ ret.value[3] = TRUE
      /\ ret'.op = "step") =>
       /\ player' = maze.target_position
       /\ ~(/\ ret'.kind = "return"
            /\ ret'.value[2] = IntendedSchema.neutral_reward
            /\ ret'.value[1] = build_state_matrix(maze, player'))]_vars

\* C4: every accepted move, the one arriving at the target included, returns
\* an observation with PLAYER at the player's new position and no PLAYER at
\* the position the player left.
C4_AcceptedMoveRebuilds ==
  [][\A a \in Actions :
       (StepCalled(a) /\ ret'.kind = "return" /\ ~Blocked(a)) =>
         /\ ret'.value[1][Dest(a)] = PLAYER
         /\ ret'.value[1][player] # PLAYER]_vars

\* C5: a step whose destination is in bounds, not WALL and not the target
\* moves the player there and returns exactly neutral_reward with
\* done = False.
C5_RewardNeutrality ==
  [][\A a \in Actions :
       (StepCalled(a) /\ ~Blocked(a) /\ Dest(a) # maze.target_position) =>
         /\ ret'.kind = "return"
         /\ player' = Dest(a)
         /\ ret'.value[2] = IntendedSchema.neutral_reward
         /\ ret'.value[3] = FALSE]_vars

\* C6: the maze built by a reset comes from a factory that was given the
\* seed as advanced by that reset, not the seed of construction.
C6_ResetUsesNewSeed ==
  ret.op = "reset" => maze_factory.seed = seed

\* C7: after reset(seed = s) the internal seed equals s and the maze is the
\* one for s; after reset() the internal counter has advanced by one.
C7_ExplicitSeedWins ==
  [][ret'.op = "reset" =>
       IF ret'.seed_arg # <<>>
       THEN /\ seed' = ret'.seed_arg[1]
            /\ maze_factory'.seed = ret'.seed_arg[1]
       ELSE seed' = seed + 1]_vars

\* C8: reset returns the machine to READY: the player stands on the start of
\* the maze now held, the stored observation is that maze with PLAYER on the
\* start cell, and the done value of the step that follows is decided by
\* the new maze alone.
C8_ResetReturnsToReady ==
  [][/\ ret'.op = "reset" =>
          /\ player' = maze'.start_position
          /\ state' = FreshObservation(maze')
     /\ (ret.op = "reset" /\ ret'.op = "step" /\ ret'.kind = "return") =>
          ret'.value[3] =
            (/\ potential_next_position(maze.start_position, ret'.action)
                  = maze.target_position
             /\ maze.grid[maze.target_position] # WALL)]_vars

\* C8 witness: a reset has just run on an episode and left the player on the
\* start cell of the maze it generated.
C8_Witness ==
  /\ ret.op = "reset"
  /\ maze_factory.calls >= 2
  /\ player = maze.start_position
  /\ state[player] = PLAYER

\* C9: the value reset returns is the observation of the newly generated
\* maze with the player on its start cell.
C9_ResetReturnsObservation ==
  ret.op = "reset" =>
    /\ ret.kind = "return"
    /\ ret.value = <<FreshObservation(maze)>>

\* C10: with a reward_schema supplied to the constructor every step
\* completes without a fault and returns the supplied scalar of its outcome.
C10_SuppliedSchemaUsed ==
  [][\A a \in Actions :
       (arg_reward_schema # <<>> /\ StepCalled(a)) =>
         /\ ret'.kind = "return"
         /\ ret'.value[2] =
              IF Blocked(a)
              THEN arg_reward_schema[1].wall_collision_reward
              ELSE IF Dest(a) = maze.target_position
              THEN arg_reward_schema[1].target_reached_reward
              ELSE arg_reward_schema[1].neutral_reward]_vars

\* the observation the overlay rule prescribes for maze m and a position
Overlay(m, position) ==
  [p \in Cells |->
     IF p = position THEN PLAYER
     ELSE IF p = m.target_position THEN TARGET
     ELSE IF p = m.start_position THEN START
     ELSE m.grid[p]]

\* this transition ran build_state_matrix: a reset, a direct call, or an
\* accepted step that did not arrive at the target
Rebuilt ==
  \/ ret'.op \in {"reset", "build_state_matrix"}
  \/ /\ ret'.op = "step" /\ ret'.kind = "return"
     /\ ret'.value[5] = ""

\* C11: every observation build_state_matrix builds is the structural grid
\* except that the player's cell holds PLAYER (also on start or target), the
\* target cell holds TARGET unless the player is on it and the start cell
\* holds START unless the player is on it.
C11_OverlayOrder ==
  [][Rebuilt => state' = Overlay(maze', player')]_vars

\* C11 witness: an observation built with the player on the target cell, the
\* start cell showing START again.
C11_Witness ==
  /\ ret.op = "build_state_matrix"
  /\ player = maze.target_position
  /\ state[player] = PLAYER
  /\ state[maze.start_position] = START

\* the five cell codes of the observation encoding
CellCodes == {WALL, PATH, TARGET, START, PLAYER}

\* o is a rows x cols matrix of cell codes
IsObservation(o) ==
  /\ DOMAIN o = Cells
  /\ \A p \in Cells : o[p] \in CellCodes /\ 0 <= o[p] /\ o[p] <= 4

\* C12: the observation held by the environment, and the one a step returns,
\* is a rows x cols matrix whose every value is one of the five cell codes.
C12_ShapeAndRange ==
  /\ IsObservation(state)
  /\ (ret.op = "step" /\ ret.kind = "return") => IsObservation(ret.value[1])

\* C12 witness: a step of an episode started by reset has returned an
\* observation showing the player.
C12_Witness ==
  /\ ret.op = "step" /\ ret.kind = "return"
  /\ maze_factory.calls >= 2
  /\ ret.value[1][player] = PLAYER

\* C13: every step that moves the player returns neutral_reward with
\* done = False unless it moves the player onto the target, when it returns
\* target_reached_reward with done = True; and a step returns done = True
\* only when it has moved the player onto the target.
C13_EpisodeTrace ==
  [][\A a \in Actions :
       StepCalled(a) =>
         /\ (player' # player) =>
              /\ ret'.kind = "return"
              /\ player' = Dest(a)
              /\ IF player' = maze.target_position
                 THEN /\ ret'.value[2] = IntendedSchema.target_reached_reward
                      /\ ret'.value[3] = TRUE
                 ELSE /\ ret'.value[2] = IntendedSchema.neutral_reward
                      /\ ret'.value[3] = FALSE
         /\ (ret'.kind = "return" /\ ret'.value[3] = TRUE) =>
              /\ player' = maze.target_position
              /\ player' # player
              /\ player' = Dest(a)]_vars

\* C13 witness: the last step of an episode of at least two moves has
\* arrived at the target; the observation still shows the start cell as START.
C13_Witness ==
  /\ ret.op = "step" /\ ret.kind = "return"
  /\ ret.value[3] = TRUE
  /\ ret.value[2] = IntendedSchema.target_reached_reward
  /\ player = maze.target_position
  /\ ret.value[1][maze.start_position] = START

C15_SeedAdvancement ==
  [][/\ seed # NoSeed /\ seed' # NoSeed
     /\ (ret'.op = "reset" /\ ret'.seed_arg = <<>>) => seed' = seed + 1
     /\ ret'.op = "reset" =>
          seed' = maze_factory'.seed + (maze_factory'.calls - 1)
     /\ ret'.op = "step" => seed' = seed]_vars

\* C15 witness: the second reset without a seed has run and the seed is the
\* constructor's seed plus two.
C15_Witness ==
  /\ ret.op = "reset" /\ ret.seed_arg = <<>>
  /\ maze_factory.calls = 3
  /\ seed = maze_factory.seed + 2

\* C16: step and build_state_matrix leave the maze (grid, start_position,
\* target_position) as it is, the grid holds only WALL and PATH, and the
\* maze changes only when reset replaces it.
C16_StructuralImmutability ==
  [][/\ ret'.op \in {"step", "build_state_matrix"} => maze' = maze
     /\ maze' # maze => ret'.op = "reset"
     /\ \A p \in Cells : maze'.grid[p] \in {WALL, PATH}]_vars

\* C16 witness: after an accepted step the observation carries PLAYER and
\* START where the maze grid still holds PATH.
C16_Witness ==
  /\ ret.op = "step" /\ ret.kind = "return"
  /\ player # maze.start_position
  /\ state[player] = PLAYER /\ maze.grid[player] = PATH
  /\ state[maze.start_position] = START
  /\ maze.grid[maze.start_position] = PATH

\* the player stands on an in-bounds cell that is not WALL
Contained == player \in Cells /\ maze.grid[player] # WALL

\* the four cells next to position p
Neighbours(p) == {potential_next_position(p, a) : a \in Actions}

\* C17: the player is always on an in-bounds cell that is not WALL, and its
\* position changes only by an accepted step, to one of the four neighbour
\* cells, or by reset, to the start of the new maze.
C17_PlayerContainment ==
  /\ []Contained
  /\ [][(player' # player) =>
          \/ /\ ret'.op = "reset"
             /\ player' = maze'.start_position
          \/ /\ ret'.op = "step" /\ ret'.kind = "return"
             /\ ret'.value[5] # "Invalid move!"
             /\ player' \in Neighbours(player)
             /\ player' = potential_next_position(player, ret'.action)]_vars

\* C17 witness: away from the start, a step towards a WALL cell has been
\* rejected and the player is still on its PATH cell.
C17_Witness ==
  /\ ret.op = "step" /\ ret.kind = "return"
  /\ ret.value[5] = "Invalid move!"
  /\ player # maze.start_position
  /\ potential_next_position(player, ret.action) \in Cells
  /\ maze.grid[potential_next_position(player, ret.action)] = WALL
  /\ maze.grid[player] = PATH

\* C18: the stored observation has exactly one PLAYER cell, the player's
\* current position.
C18_ObservationAgreesWithPosition ==
  {p \in Cells : state[p] = PLAYER} = {player}

====
